---- MODULE Spec2Model ----
(***************************************************************************)
(* Lead pipelines of landing_page_gois.                                    *)
(*                                                                         *)
(*   init_leads.py        place pipeline: directory search, place details, *)
(*                        website crawl, email selection, scoring, dedup   *)
(*                        and rank, export to leads.xlsx                   *)
(*   leads_detectados.py  posting pipeline: listing scrape, pain score,    *)
(*                        threshold filter, export to leads_detectados.xlsx*)
(*                                                                         *)
(* A Python str is a sequence of one-character strings, so that strip,     *)
(* lower, split, the email pattern, substring tests and the ordering of    *)
(* sorted() are computed on the characters.  The empty str is <<>>.        *)
(***************************************************************************)
EXTENDS Integers, Sequences, FiniteSets, TLC

VARIABLES
    \* ---- init_leads.main ----
    api_key,       \* API_KEY is non-empty
    pc,            \* position of main
    qi,            \* index into QUERIES of the query being processed
    items,         \* items of the current query still to process
    seen_places,   \* place ids already processed
    seen_domains,  \* registrable domains already crawled
    cur,           \* fields of the place whose website is being crawled
    pages,         \* candidate pages of that website not visited
    emails,        \* running set of addresses of that website
    discovered,    \* history: every address found on that website
    all_rows,      \* rows emitted so far
    replay_rows,   \* rows of a second run of main on the same responses
    leads_xlsx,    \* the export of the run
    replay_xlsx,   \* the export of the second run
    crawl_starts,  \* history: registrable domain of every crawl started
    row_src,       \* history: per emitted row, how it came about
    \* ---- leads_detectados.main ----
    ppc,           \* position of main
    src_i,         \* index into SEARCH_URLS of the source being processed
    det_rows,      \* all_rows of leads_detectados.main
    det_xlsx,      \* leads_detectados.xlsx
    src_log,       \* history: per processed source, how scrape_html ended
    \* ---- row assembly on free inputs ----
    row,           \* the row built from one set of place fields
    row_prev       \* the row before the last field was filled in

placeVars ==
    <<api_key, pc, qi, items, seen_places, seen_domains,
      cur, pages, emails, discovered, all_rows, replay_rows, leads_xlsx, replay_xlsx,
      crawl_starts, row_src>>

postVars == <<ppc, src_i, det_rows, det_xlsx, src_log>>

rowVars == <<row, row_prev>>

vars == <<placeVars, postVars, rowVars>>

-----------------------------------------------------------------------------
(* Characters and str operations                                           *)

\* The characters of the model in code-point order (the order of sorted()).
Alphabet ==
    <<" ", "%", "+", "-", ".", "0", "1", "2", "3", "4", "5", "6", "7", "8",
      "9", "@",
      "A", "B", "C", "D", "E", "F", "G", "H", "I", "J", "K", "L", "M", "N",
      "O", "P", "Q", "R", "S", "T", "U", "V", "W", "X", "Y", "Z",
      "_",
      "a", "b", "c", "d", "e", "f", "g", "h", "i", "j", "k", "l", "m", "n",
      "o", "p", "q", "r", "s", "t", "u", "v", "w", "x", "y", "z">>

OrdOf ==
    [c \in {Alphabet[i] : i \in 1..Len(Alphabet)} |->
        CHOOSE i \in 1..Len(Alphabet) : Alphabet[i] = c]

\* ord(c), up to an order-preserving renumbering
Ord(c) == OrdOf[c]

Digits == {"0", "1", "2", "3", "4", "5", "6", "7", "8", "9"}

UpperCase ==
    <<"A", "B", "C", "D", "E", "F", "G", "H", "I", "J", "K", "L", "M", "N",
      "O", "P", "Q", "R", "S", "T", "U", "V", "W", "X", "Y", "Z">>

LowerCase ==
    <<"a", "b", "c", "d", "e", "f", "g", "h", "i", "j", "k", "l", "m", "n",
      "o", "p", "q", "r", "s", "t", "u", "v", "w", "x", "y", "z">>

Letters == {UpperCase[i] : i \in 1..26} \cup {LowerCase[i] : i \in 1..26}

SetMin(S) == CHOOSE x \in S : \A y \in S : x <= y

SetMax(S) == CHOOSE x \in S : \A y \in S : x >= y

\* str.lower() on one character
lower_char(c) ==
    IF \E i \in 1..26 : UpperCase[i] = c
    THEN LowerCase[CHOOSE i \in 1..26 : UpperCase[i] = c]
    ELSE c

\* str.lower()
lower(s) == [i \in 1..Len(s) |-> lower_char(s[i])]

\* str.lstrip(), str.rstrip(), str.strip(): the only whitespace character of
\* the alphabet is the space
RECURSIVE lstrip(_)
lstrip(s) ==
    IF s # <<>> /\ Head(s) = " " THEN lstrip(Tail(s)) ELSE s

RECURSIVE rstrip(_)
rstrip(s) ==
    IF s # <<>> /\ s[Len(s)] = " " THEN rstrip(SubSeq(s, 1, Len(s) - 1))
    ELSE s

strip(s) == rstrip(lstrip(s))

\* `sub in s` of Python
Contains(sub, s) ==
    \E i \in 0..(Len(s) - Len(sub)) : SubSeq(s, i + 1, i + Len(sub)) = sub

\* s < t in the order of sorted(): code points, a proper prefix first
StrLess(s, t) ==
    \E k \in 1..(Len(t)) :
        /\ \A i \in 1..(k - 1) : i <= Len(s) /\ s[i] = t[i]
        /\ \/ Len(s) = k - 1
           \/ Len(s) >= k /\ Ord(s[k]) < Ord(t[k])

\* s.split(sep)[-1]: the text after the last separator, s itself without one
RECURSIVE AfterLast(_, _)
AfterLast(s, sep) ==
    IF s = <<>> THEN <<>>
    ELSE IF s[Len(s)] = sep THEN <<>>
    ELSE Append(AfterLast(SubSeq(s, 1, Len(s) - 1), sep), s[Len(s)])

-----------------------------------------------------------------------------
(* Email pattern and classification                                        *)

\* [A-Z0-9._%+-] under re.IGNORECASE
LocalChars == Letters \cup Digits \cup {".", "_", "%", "+", "-"}

\* [A-Z0-9.-] under re.IGNORECASE
HostChars == Letters \cup Digits \cup {".", "-"}

\* EMAIL_REGEX.fullmatch(s): [A-Z0-9._%+-]+ @ [A-Z0-9.-]+ \. [A-Z]{2,}
EMAIL_REGEX_fullmatch(s) ==
    \E a \in 2..Len(s) :
        /\ s[a] = "@"
        /\ \A i \in 1..(a - 1) : s[i] \in LocalChars
        /\ \E d \in (a + 2)..(Len(s) - 2) :
              /\ s[d] = "."
              /\ \A i \in (a + 1)..(d - 1) : s[i] \in HostChars
              /\ \A i \in (d + 1)..Len(s) : s[i] \in Letters

PERSONAL_DOMAINS ==
    { <<"g", "m", "a", "i", "l", ".", "c", "o", "m">>,
      <<"h", "o", "t", "m", "a", "i", "l", ".", "c", "o", "m">>,
      <<"o", "u", "t", "l", "o", "o", "k", ".", "c", "o", "m">>,
      <<"y", "a", "h", "o", "o", ".", "c", "o", "m">>,
      <<"l", "i", "v", "e", ".", "c", "o", "m">>,
      <<"i", "c", "l", "o", "u", "d", ".", "c", "o", "m">>,
      <<"a", "o", "l", ".", "c", "o", "m">>,
      <<"p", "r", "o", "t", "o", "n", ".", "m", "e">>,
      <<"p", "r", "o", "t", "o", "n", "m", "a", "i", "l", ".", "c", "o", "m">>,
      <<"g", "m", "x", ".", "c", "o", "m">>,
      <<"g", "m", "x", ".", "e", "s">>,
      <<"z", "o", "h", "o", ".", "c", "o", "m">> }

\* ".".join(domain.split(".")[-2:]): the text after the second-to-last dot
RECURSIVE LastTwoLabels(_)
LastTwoLabels(domain) ==
    IF Cardinality({i \in 1..Len(domain) : domain[i] = "."}) < 2
    THEN domain
    ELSE LastTwoLabels(Tail(domain))

\* addresses that occur in the crawled pages; each matches EMAIL_REGEX
Addresses ==
    { <<"i", "n", "f", "o", "@", "a", "c", "m", "e", ".", "e", "s">>,
      <<"i", "n", "f", "o", "@", "a", "c", "m", "e", ".", "c", "o", "m">>,
      <<"a", "n", "a", "@", "a", "c", "m", "e", ".", "e", "s">>,
      <<"B", "e", "a", "@", "a", "c", "m", "e", ".", "e", "s">>,
      <<"v", "e", "n", "t", "a", "s", "@", "g", "m", "a", "i", "l", ".", "c",
        "o", "m">>,
      <<"i", "n", "f", "o", "@", "g", "m", "x", ".", "e", "s">> }

\* strings that are no address of a crawled page: empty, blank, without @,
\* without a final label, in upper case, padded, with a personal domain
\* below a country suffix, with a subdomain of a personal domain
OtherStrings ==
    { <<>>,
      <<" ">>,
      <<"f", "o", "o">>,
      <<"b", "o", "b", "@", "a", "c", "m", "e">>,
      <<"I", "N", "F", "O", "@", "A", "C", "M", "E", ".", "E", "S">>,
      <<"A", "n", "a", "@", "G", "M", "A", "I", "L", ".", "C", "O", "M">>,
      <<" ", "i", "n", "f", "o", "@", "a", "c", "m", "e", ".", "e", "s", " ">>,
      <<"e", "v", "a", "@", "g", "m", "a", "i", "l", ".", "c", "o", "m", ".",
        "e", "s">>,
      <<"z", "o", "e", "@", "m", "a", "i", "l", ".", "g", "m", "a", "i", "l",
        ".", "c", "o", "m">> }

\* the strings of the model
Strings == Addresses \cup OtherStrings

\* lines 73-78: the domain, or its last two labels, is a personal domain
is_personal_domain(domain) ==
    \/ domain \in PERSONAL_DOMAINS
    \/ /\ \E i \in 1..Len(domain) : domain[i] = "."
       /\ LastTwoLabels(domain) \in PERSONAL_DOMAINS

\* a plausible slip: the pattern test is left out
is_corporate_novalid(e) == ~is_personal_domain(AfterLast(e, "@"))

\* lines 70-79, on the stripped and lower-cased address
is_corporate_normalized(e) ==
    /\ EMAIL_REGEX_fullmatch(e)
    /\ ~is_personal_domain(AfterLast(e, "@"))

\* the strings of the model that lines 69-79 accept, computed once
CorporateStrings ==
    {a \in Strings : is_corporate_normalized(lower(strip(a)))}

is_corporate_email(email) == email \in CorporateStrings

classify_email(email) ==
    IF email = <<>> THEN "no_encontrado"
    ELSE IF is_corporate_email(email) THEN "corporativo"
    ELSE "personal"

-----------------------------------------------------------------------------
(* Lead score, in thousandths before rounding and hundredths after         *)

\* round(x, 2) of a value given in thousandths, as hundredths (half to even)
Round2(x) ==
    LET q == x \div 10
        r == x % 10
    IN  IF r > 5 \/ (r = 5 /\ q % 2 = 1) THEN q + 1 ELSE q

\* a plausible slip: the comment's "+0.2 si tiene ciudad/categoria" per field
score_lead_heavy(r) ==
    LET score ==
            (IF r.web # <<>> THEN 300 ELSE 0)
          + (IF classify_email(r.email) = "corporativo" THEN 300 ELSE 0)
          + (IF r.telefono # <<>> THEN 200 ELSE 0)
          + (IF r.ciudad # "" THEN 200 ELSE 0)
          + (IF r.categoria # <<>> THEN 200 ELSE 0)
    IN  Round2(score)

score_lead(r) ==
    LET score ==
            (IF r.web # <<>> THEN 300 ELSE 0)
          + (IF classify_email(r.email) = "corporativo" THEN 300 ELSE 0)
          + (IF r.telefono # <<>> THEN 200 ELSE 0)
          + (IF r.ciudad # "" THEN 100 ELSE 0)
          + (IF r.categoria # <<>> THEN 100 ELSE 0)
    IN  Round2(IF score < 1000 THEN score ELSE 1000)

-----------------------------------------------------------------------------
(* Bounds of the model, program constants and the inputs of the place run  *)

\* place ids the directory knows: 1..NumPlaces
NumPlaces == 2

\* results the directory returns on one page of a text search
PageSize == 1

\* results the directory holds for one query
MaxItems == 2

\* queries of the run: QUERIES is the list the operator fills in
NumQueries == 2

MAX_RESULTS_PER_QUERY == 100

\* places_text_search stops after this many pages
MaxSearchPages == 3

\* find_candidate_pages: unique_urls[:5]
MaxPages == 5

\* one page of a text search: its results (0 stands for a result without
\* place_id) and whether a next_page_token came with it
RECURSIVE SeqsUpTo(_, _)
SeqsUpTo(S, n) ==
    IF n = 0 THEN {<<>>}
    ELSE LET shorter == SeqsUpTo(S, n - 1)
         IN  shorter \cup {Append(t, x) : t \in shorter, x \in S}

SearchPages ==
    [kind : {"page"}, results : SeqsUpTo(0..NumPlaces, PageSize),
     next_page_token : BOOLEAN]

\* details.get("website"): <<scheme, host labels, rest>>, <<>> when absent
Websites ==
    { <<>>,
      <<"https", <<"www", "acme", "es">>, "/contacto?ref=maps">>,
      <<"", <<"shop", "acme", "es">>, "">>,
      <<"http", <<"10", "0", "0", "1">>, "/">> }

Names == { <<"A", "c", "m", "e">>, <<" ", "A", "c", "m", "e", " ">> }

\* formatted_phone_number, address_components and types of a result
FullExtras ==
    [formatted_phone_number |-> <<"9", "1", " ", "2">>,
     address_components |->
         <<[types |-> {"route"}, long_name |-> "Gran Via"],
           [types |-> {"locality", "political"}, long_name |-> "Madrid"]>>,
     types |-> <<"store", "food">>]

Extras == {FullExtras}

\* the results of place_details with status OK
DetailsResults ==
    {[name |-> n, website |-> w, extras |-> x] :
        n \in Names, w \in Websites, x \in Extras}

\* addresses found on one page
MaxFound == 2

\* what one candidate page yields: "" from fetch_url (an exception, a status
\* other than 200, a non-HTML body), or the html, given by the addresses
\* extract_emails_from_html finds in its markup and visible text
PageResponses ==
    {[html |-> FALSE, found |-> {}]}
    \cup {[html |-> TRUE, found |-> S] :
            S \in {T \in SUBSET Addresses : Cardinality(T) <= MaxFound}}

-----------------------------------------------------------------------------
(* Helpers of init_leads.py                                                *)

\* re.sub(r"[^\d+]", "", phone)
RECURSIVE clean_phone(_)
clean_phone(phone) ==
    IF phone = <<>> THEN <<>>
    ELSE IF Head(phone) \in Digits \cup {"+"}
         THEN <<Head(phone)>> \o clean_phone(Tail(phone))
         ELSE clean_phone(Tail(phone))

\* scheme://netloc, with http:// put in front of a url without scheme
normalize_website(url) ==
    IF url = <<>> THEN <<>>
    ELSE <<IF url[1] = "" THEN "http" ELSE url[1], url[2]>>

\* suffixes of the hosts above in the public suffix list
PublicSuffixes == {"es", "com"}

\* tldextract.extract(website).registered_domain: the label before the public
\* suffix and the suffix; "" for a host without one (an IP address)
registered_domain(website) ==
    LET host == website[2]
        n == Len(host)
    IN  IF n >= 2 /\ host[n] \in PublicSuffixes
        THEN <<host[n - 1], host[n]>>
        ELSE <<>>

RECURSIVE address_component(_, _)
address_component(components, typ) ==
    IF components = <<>> THEN ""
    ELSE IF typ \in Head(components).types THEN Head(components).long_name
    ELSE address_component(Tail(components), typ)

\* ", ".join(types)
RECURSIVE JoinTypes(_)
JoinTypes(types) ==
    IF types = <<>> THEN <<>>
    ELSE IF Len(types) = 1 THEN <<types[1]>>
    ELSE <<types[1], ", ">> \o JoinTypes(Tail(types))

Paths ==
    <<"", "contact", "contacto", "contact-us", "sobre-nosotros",
      "aviso-legal", "legal", "privacy", "privacidad">>

\* the elements of s in order, each kept at its first occurrence
RECURSIVE Unique(_)
Unique(s) ==
    IF s = <<>> THEN <<>>
    ELSE LET init == Unique(SubSeq(s, 1, Len(s) - 1))
             last == s[Len(s)]
         IN  IF \E i \in 1..Len(init) : init[i] = last
             THEN init ELSE Append(init, last)

Take(s, n) == SubSeq(s, 1, IF Len(s) < n THEN Len(s) ELSE n)

\* urljoin(base_url + "/", p) for each path, duplicates skipped, first five
find_candidate_pages(base_url) ==
    Take(Unique([i \in 1..Len(Paths) |->
                    <<base_url[1], base_url[2], Paths[i]>>]), MaxPages)

priority ==
    << <<"i", "n", "f", "o", "@">>,
       <<"c", "o", "n", "t", "a", "c", "t">>,
       <<"c", "o", "n", "t", "a", "c", "t", "o">>,
       <<"c", "o", "m", "e", "r", "c", "i", "a", "l">>,
       <<"v", "e", "n", "t", "a", "s">>,
       <<"a", "d", "m", "i", "n", "@">> >>

\* the orders in which `for e in emails` can enumerate the set
IterOrders(S) ==
    {f \in [1..Cardinality(S) -> S] : \A i, j \in 1..Cardinality(S) :
                                          f[i] = f[j] => i = j}

\* sorted(S)[0]
MinStr(S) == CHOOSE s \in S : \A t \in S : t = s \/ StrLess(s, t)

\* a plausible slip: the keyword loop is left out
select_email_sorted(S, order) == MinStr(S)

\* lines 279-288: the first address, in iteration order, that contains the
\* first keyword of `priority` any address contains; sorted(S)[0] without one
\* line 283, `p in e.lower()`, for the keywords and the addresses of the
\* model, computed once
KeywordHits ==
    {<<p, e>> \in {priority[k] : k \in 1..Len(priority)} \X Addresses :
        Contains(p, lower(e))}

\* lines 282-285: the first address, in iteration order, that contains p
RECURSIVE first_with(_, _)
first_with(order, p) ==
    IF order = <<>> THEN <<>>
    ELSE IF <<p, Head(order)>> \in KeywordHits THEN Head(order)
    ELSE first_with(Tail(order), p)

\* `chosen or sorted(emails)[0]`
or_smallest(chosen, S) == IF chosen # <<>> THEN chosen ELSE MinStr(S)

\* lines 281-287: the keywords ps are tried in order
RECURSIVE first_by_priority(_, _)
RECURSIVE or_first(_, _, _)
first_by_priority(order, ps) ==
    IF ps = <<>> THEN <<>>
    ELSE or_first(first_with(order, Head(ps)), order, Tail(ps))

or_first(hit, order, ps) ==
    IF hit # <<>> THEN hit ELSE first_by_priority(order, ps)

select_email(S, order) == or_smallest(first_by_priority(order, priority), S)

\* lines 270-275: the running set after a page, and whether the loop breaks
corp_emails(S) == {e \in S : is_corporate_email(e)}

\* lines 291-306
make_row(fields, email_found, email_tipo, q) ==
    LET r == [empresa |-> fields.name, web |-> fields.website,
              email |-> email_found, email_tipo |-> email_tipo,
              telefono |-> fields.phone, ciudad |-> fields.city,
              categoria |-> fields.categoria, fuente |-> "google_places",
              query |-> q]
    IN  [empresa |-> r.empresa, web |-> r.web, email |-> r.email,
         email_tipo |-> r.email_tipo, telefono |-> r.telefono,
         ciudad |-> r.ciudad, categoria |-> r.categoria, fuente |-> r.fuente,
         query |-> r.query, score_inicial |-> score_lead(r)]

\* lines 234-244: the fields main reads from a details result
place_fields(d) ==
    [name |-> strip(d.name),
     phone |-> clean_phone(d.extras.formatted_phone_number),
     website |-> IF d.website # <<>> THEN normalize_website(d.website)
                 ELSE <<>>,
     city |-> IF address_component(d.extras.address_components, "locality")
                    # ""
              THEN address_component(d.extras.address_components, "locality")
              ELSE address_component(d.extras.address_components,
                                     "postal_town"),
     categoria |-> JoinTypes(d.extras.types)]

\* the fields main can read from a details result
PlaceFields == {place_fields(d) : d \in DetailsResults}

-----------------------------------------------------------------------------
(* Dedup and rank stage of init_leads.main                                 *)

TipoChars(t) ==
    CASE t = "corporativo" ->
            <<"c", "o", "r", "p", "o", "r", "a", "t", "i", "v", "o">>
      [] t = "no_encontrado" ->
            <<"n", "o", "_", "e", "n", "c", "o", "n", "t", "r", "a", "d", "o">>
      [] t = "personal" -> <<"p", "e", "r", "s", "o", "n", "a", "l">>

\* row i goes before row j under sort_values(["score_inicial", "email_tipo"],
\* ascending=[False, True]); rows with equal keys keep their order
SortsBefore(rows, i, j) ==
    \/ rows[i].score_inicial > rows[j].score_inicial
    \/ /\ rows[i].score_inicial = rows[j].score_inicial
       /\ StrLess(TipoChars(rows[i].email_tipo), TipoChars(rows[j].email_tipo))
    \/ /\ rows[i].score_inicial = rows[j].score_inicial
       /\ rows[i].email_tipo = rows[j].email_tipo
       /\ i < j

sort_values(rows) ==
    [k \in 1..Len(rows) |->
        rows[CHOOSE i \in 1..Len(rows) :
                Cardinality({j \in 1..Len(rows) : SortsBefore(rows, j, i)})
                    = k - 1]]

\* drop_duplicates(subset=["empresa", "web"]): the first row of each pair
RECURSIVE drop_duplicates(_)
drop_duplicates(rows) ==
    IF rows = <<>> THEN <<>>
    ELSE LET init == drop_duplicates(SubSeq(rows, 1, Len(rows) - 1))
             last == rows[Len(rows)]
         IN  IF \E i \in 1..Len(init) :
                    init[i].empresa = last.empresa /\ init[i].web = last.web
             THEN init ELSE Append(init, last)

\* a plausible slip: the commented-out filter of line 321 is applied
dedup_rank_filtered(rows) ==
    SelectSeq(drop_duplicates(sort_values(rows)),
              LAMBDA r : r.email_tipo = "corporativo" \/ r.email = <<>>)

\* lines 313-317
dedup_rank(rows) == drop_duplicates(sort_values(rows))

-----------------------------------------------------------------------------
(* init_leads.main                                                         *)

NoPlace == [name |-> <<>>]

NoFile == [written |-> FALSE, rows |-> <<>>]

InitPlaceIdle ==
    /\ api_key = FALSE
    /\ pc = "idle"
    /\ qi = 0
    /\ items = <<>>
    /\ seen_places = {}
    /\ seen_domains = {}
    /\ cur = NoPlace
    /\ pages = <<>>
    /\ emails = {}
    /\ discovered = {}
    /\ all_rows = <<>>
    /\ replay_rows = <<>>
    /\ leads_xlsx = NoFile
    /\ replay_xlsx = NoFile
    /\ crawl_starts = <<>>
    /\ row_src = <<>>

InitPostIdle ==
    /\ ppc = "idle"
    /\ src_i = 0
    /\ det_rows = <<>>
    /\ det_xlsx = NoFile
    /\ src_log = <<>>

InitRowIdle ==
    /\ row = NoPlace
    /\ row_prev = NoPlace

\* the crawl of one website is over: its working state is dropped
ClearCrawl ==
    /\ cur' = NoPlace
    /\ pages' = <<>>
    /\ emails' = {}
    /\ discovered' = {}

\* line 211: without the credential the run ends before any request
StartNoKey ==
    /\ pc = "start"
    /\ ~api_key
    /\ pc' = "aborted"
    /\ UNCHANGED <<api_key, qi, items, seen_places,
                   seen_domains, cur, pages, emails, discovered, all_rows,
                   replay_rows, leads_xlsx, replay_xlsx, crawl_starts,
                   row_src>>

\* lines 214-218
StartRun ==
    /\ pc = "start"
    /\ api_key
    /\ pc' = "search"
    /\ qi' = 1
    /\ UNCHANGED <<api_key, items, seen_places, seen_domains, cur, pages,
                   emails, discovered, all_rows, replay_rows, leads_xlsx,
                   replay_xlsx, crawl_starts, row_src>>

\* lines 172-173: requests.get of places_text_search raises; nothing catches
\* it in places_text_search or in main
TextSearchRaises ==
    /\ pc = "search"
    /\ pc' = "crashed"
    /\ UNCHANGED <<api_key, qi, items, seen_places,
                   seen_domains, cur, pages, emails, discovered, all_rows,
                   replay_rows, leads_xlsx, replay_xlsx, crawl_starts,
                   row_src>>

\* lines 164-185: the pages a text search can go through: every page but the
\* last came with a next_page_token and left the results under the cap, and
\* the last came without one, or filled the cap, or was the third
RECURSIVE Concat(_)
Concat(pgs) ==
    IF pgs = <<>> THEN <<>>
    ELSE Concat(SubSeq(pgs, 1, Len(pgs) - 1)) \o pgs[Len(pgs)].results

Paginations ==
    {pgs \in SeqsUpTo(SearchPages, MaxSearchPages) :
        /\ pgs # <<>>
        /\ Len(Concat(pgs)) <= MaxItems
        /\ \A n \in 1..(Len(pgs) - 1) :
              /\ pgs[n].next_page_token
              /\ Len(Concat(SubSeq(pgs, 1, n))) < MAX_RESULTS_PER_QUERY
        /\ \/ ~pgs[Len(pgs)].next_page_token
           \/ Len(Concat(pgs)) >= MAX_RESULTS_PER_QUERY
           \/ Len(pgs) >= MaxSearchPages}

\* lines 162-185: results[:MAX_RESULTS_PER_QUERY]
places_text_search(pgs) == Take(Concat(pgs), MAX_RESULTS_PER_QUERY)

\* what a text search can return
SearchOutcomes == {places_text_search(pgs) : pgs \in Paginations}

\* line 220: the text search of the query, all its pages
TextSearch ==
    /\ pc = "search"
    /\ \E found \in SearchOutcomes : items' = found
    /\ pc' = "items"
    /\ UNCHANGED <<api_key, qi, seen_places, seen_domains, cur, pages, emails,
                   discovered, all_rows, replay_rows, leads_xlsx, replay_xlsx,
                   crawl_starts, row_src>>

\* lines 224-226: an item without place_id, or one already processed
SkipItem ==
    /\ pc = "items"
    /\ items # <<>>
    /\ Head(items) = 0 \/ Head(items) \in seen_places
    /\ items' = Tail(items)
    /\ ClearCrawl
    /\ UNCHANGED <<api_key, pc, qi, seen_places,
                   seen_domains, all_rows, replay_rows, leads_xlsx,
                   replay_xlsx, crawl_starts, row_src>>

\* lines 195-196: requests.get of place_details raises; nothing catches it
DetailsRaises ==
    /\ pc = "items"
    /\ items # <<>>
    /\ Head(items) # 0 /\ Head(items) \notin seen_places
    /\ seen_places' = seen_places \cup {Head(items)}
    /\ pc' = "crashed"
    /\ ClearCrawl
    /\ UNCHANGED <<api_key, qi, items, seen_domains, all_rows, replay_rows,
                   leads_xlsx, replay_xlsx, crawl_starts, row_src>>

\* lines 197-198, 231-232: a status other than OK gives {} and the item is
\* skipped
DetailsEmpty ==
    /\ pc = "items"
    /\ items # <<>>
    /\ Head(items) # 0 /\ Head(items) \notin seen_places
    /\ seen_places' = seen_places \cup {Head(items)}
    /\ items' = Tail(items)
    /\ ClearCrawl
    /\ UNCHANGED <<api_key, pc, qi, seen_domains,
                   all_rows, replay_rows, leads_xlsx, replay_xlsx,
                   crawl_starts, row_src>>

\* a plausible slip: no domain-level dedup
already_crawled_never(domain, seen) == FALSE

\* line 254
already_crawled(domain, seen) == domain # <<>> /\ domain \in seen

\* lines 253-254: the registrable domain of the place's website
place_domain(f) ==
    IF f.website # <<>> THEN registered_domain(f.website) ELSE <<>>

\* lines 251-258: the website of the place is crawled
crawls(f, seen) ==
    f.website # <<>> /\ ~already_crawled(place_domain(f), seen)

\* the row of a place that is not crawled, in both runs
EmitUncrawled(f, r) ==
    /\ all_rows' = Append(all_rows, r)
    /\ replay_rows' = Append(replay_rows, r)
    /\ row_src' = Append(row_src, [fields |-> f, domain |-> place_domain(f),
                                   skipped |-> f.website # <<>>,
                                   crawled |-> FALSE])

\* lines 224-258, 291-307: a place without website, or whose registrable
\* domain was crawled before: its row is emitted from the directory fields
PlaceWithoutCrawl ==
    /\ pc = "items"
    /\ items # <<>>
    /\ Head(items) # 0 /\ Head(items) \notin seen_places
    /\ \E f \in PlaceFields :
        /\ ~crawls(f, seen_domains)
        /\ EmitUncrawled(f, make_row(f, <<>>, "no_encontrado", qi))
    /\ seen_places' = seen_places \cup {Head(items)}
    /\ items' = Tail(items)
    /\ ClearCrawl
    /\ UNCHANGED <<api_key, pc, qi, seen_domains, leads_xlsx, replay_xlsx,
                   crawl_starts>>

\* the crawl of the website of a place begins
BeginCrawl(f, domain) ==
    /\ seen_domains' = IF domain # <<>> THEN seen_domains \cup {domain}
                       ELSE seen_domains
    /\ cur' = [name |-> f.name, fields |-> f, domain |-> domain]
    /\ pages' = find_candidate_pages(f.website)
    /\ crawl_starts' = Append(crawl_starts, domain)

\* lines 224-260: a place whose website is to be crawled
PlaceStartsCrawl ==
    /\ pc = "items"
    /\ items # <<>>
    /\ Head(items) # 0 /\ Head(items) \notin seen_places
    /\ \E f \in PlaceFields :
        /\ crawls(f, seen_domains)
        /\ BeginCrawl(f, place_domain(f))
    /\ emails' = {}
    /\ discovered' = {}
    /\ seen_places' = seen_places \cup {Head(items)}
    /\ items' = Tail(items)
    /\ pc' = "crawl"
    /\ UNCHANGED <<api_key, qi, all_rows, replay_rows, leads_xlsx,
                   replay_xlsx, row_src>>

\* a plausible slip: the loop does not break on a corporate address
stops_crawl_never(html, running) == FALSE

\* lines 263-275: the loop over the pages breaks after this page
stops_crawl(html, running) ==
    html /\ running # {} /\ corp_emails(running) # {}

\* line 274: emails = set(corp_emails)
restrict(running) == corp_emails(running)

\* lines 262-269: the running set after the page
after_page(resp, running) ==
    IF resp.html THEN running \cup resp.found ELSE running

\* the crawl goes on with the next page
CrawlOn(running) ==
    /\ emails' = running
    /\ discovered' = running

\* lines 260-275: one candidate page is fetched and the crawl goes on
FetchPage ==
    /\ pc = "crawl"
    /\ pages # <<>>
    /\ Tail(pages) # <<>>
    /\ \E resp \in PageResponses :
        /\ ~stops_crawl(resp.html, after_page(resp, emails))
        /\ CrawlOn(after_page(resp, emails))
    /\ pages' = Tail(pages)
    /\ UNCHANGED <<api_key, pc, qi, items, seen_places, seen_domains, cur,
                   all_rows, replay_rows, leads_xlsx, replay_xlsx,
                   crawl_starts, row_src>>

\* lines 289, 291-307: the row of a crawled place with the chosen address
crawled_row(e) == make_row(cur.fields, e, classify_email(e), qi)

\* lines 276-307: the selection among the addresses and the row of the place;
\* the second run enumerates the same set in an order of its own
SelectAndEmit(final) ==
    /\ emails' = final
    /\ IF final = {}
       THEN /\ all_rows' =
                Append(all_rows,
                       make_row(cur.fields, <<>>, "no_encontrado", qi))
            /\ replay_rows' =
                Append(replay_rows,
                       make_row(cur.fields, <<>>, "no_encontrado", qi))
       ELSE /\ \E o1 \in IterOrders(final) :
                  all_rows' =
                      Append(all_rows, crawled_row(select_email(final, o1)))
            /\ \E o2 \in IterOrders(final) :
                  replay_rows' =
                      Append(replay_rows,
                             crawled_row(select_email(final, o2)))

\* lines 270-275: the crawl ends after this page
CrawlEnds(brk, running) ==
    /\ brk \/ Tail(pages) = <<>>
    /\ discovered' = running
    /\ SelectAndEmit(IF brk THEN restrict(running) ELSE running)

\* lines 260-307: the last page of the crawl (the loop breaks or runs out),
\* the selection and the row
FetchLastPage ==
    /\ pc = "crawl"
    /\ pages # <<>>
    /\ \E resp \in PageResponses :
        CrawlEnds(stops_crawl(resp.html, after_page(resp, emails)),
                  after_page(resp, emails))
    /\ row_src' = Append(row_src, [fields |-> cur.fields,
                                   domain |-> cur.domain,
                                   skipped |-> FALSE, crawled |-> TRUE])
    /\ pages' = Tail(pages)
    /\ pc' = "items"
    /\ UNCHANGED <<api_key, qi, items, seen_places, seen_domains, cur,
                   leads_xlsx, replay_xlsx, crawl_starts>>

\* line 218: the items of the query are done and another query follows
NextQuery ==
    /\ pc = "items"
    /\ items = <<>>
    /\ qi < NumQueries
    /\ qi' = qi + 1
    /\ pc' = "search"
    /\ ClearCrawl
    /\ UNCHANGED <<api_key, items, seen_places, seen_domains, all_rows,
                   replay_rows, leads_xlsx, replay_xlsx, crawl_starts,
                   row_src>>

\* lines 309-311: no rows, no file
FinishEmpty ==
    /\ pc = "items"
    /\ items = <<>>
    /\ qi = NumQueries
    /\ all_rows = <<>>
    /\ pc' = "done"
    /\ ClearCrawl
    /\ UNCHANGED <<api_key, qi, items, seen_places,
                   seen_domains, all_rows, replay_rows, leads_xlsx,
                   replay_xlsx, crawl_starts, row_src>>

\* lines 313-325: dedup, rank and export
Export ==
    /\ pc = "items"
    /\ items = <<>>
    /\ qi = NumQueries
    /\ all_rows # <<>>
    /\ leads_xlsx' = [written |-> TRUE, rows |-> dedup_rank(all_rows)]
    /\ replay_xlsx' = [written |-> TRUE, rows |-> dedup_rank(replay_rows)]
    /\ pc' = "done"
    /\ ClearCrawl
    /\ UNCHANGED <<api_key, qi, items, seen_places,
                   seen_domains, all_rows, replay_rows, crawl_starts,
                   row_src>>

Init ==
    /\ api_key \in BOOLEAN
    /\ pc = "start"
    /\ qi = 0
    /\ items = <<>>
    /\ seen_places = {}
    /\ seen_domains = {}
    /\ cur = NoPlace
    /\ pages = <<>>
    /\ emails = {}
    /\ discovered = {}
    /\ all_rows = <<>>
    /\ replay_rows = <<>>
    /\ leads_xlsx = NoFile
    /\ replay_xlsx = NoFile
    /\ crawl_starts = <<>>
    /\ row_src = <<>>
    /\ InitPostIdle
    /\ InitRowIdle

Next ==
    /\ \/ StartNoKey
       \/ StartRun
       \/ TextSearchRaises
       \/ TextSearch
       \/ SkipItem
       \/ DetailsRaises
       \/ DetailsEmpty
       \/ PlaceWithoutCrawl
       \/ PlaceStartsCrawl
       \/ FetchPage
       \/ FetchLastPage
       \/ NextQuery
       \/ FinishEmpty
       \/ Export
    /\ UNCHANGED <<postVars, rowVars>>

Spec == Init /\ [][Next]_vars

-----------------------------------------------------------------------------
(* Properties of the place run                                             *)

\* the crawl of cur's website has just ended and its row is the last one
JustSelected == pc = "items" /\ cur # NoPlace

LastRow == all_rows[Len(all_rows)]

\* C1: a crawl is started at most once per registrable domain, and the row of
\* a place whose registrable domain an earlier place had is emitted from the
\* directory fields, without crawl, with empty email and "no_encontrado".
C1_OneCrawlPerDomain ==
    /\ \A i, j \in 1..Len(crawl_starts) :
          (i # j /\ crawl_starts[i] # <<>>) => crawl_starts[i] # crawl_starts[j]
    /\ Len(row_src) = Len(all_rows)
    /\ \A k \in 1..Len(row_src) :
          /\ all_rows[k].empresa = row_src[k].fields.name
          /\ all_rows[k].web = row_src[k].fields.website
          /\ all_rows[k].telefono = row_src[k].fields.phone
          /\ all_rows[k].ciudad = row_src[k].fields.city
          /\ all_rows[k].categoria = row_src[k].fields.categoria
          /\ (\E h \in 1..(k - 1) :
                 /\ row_src[h].domain # <<>>
                 /\ row_src[h].domain = row_src[k].domain)
             => /\ ~row_src[k].crawled
                /\ all_rows[k].email = <<>>
                /\ all_rows[k].email_tipo = "no_encontrado"
    /\ pc = "crawl" =>
          \A h \in 1..Len(row_src) :
              row_src[h].domain = <<>> \/ row_src[h].domain # cur.domain

\* C1 witness: a second place of a domain whose first place was crawled and
\* got an address
C1_Witness ==
    \E h, k \in 1..Len(row_src) :
        /\ h < k
        /\ row_src[h].crawled
        /\ all_rows[h].email # <<>>
        /\ row_src[k].domain = row_src[h].domain
        /\ all_rows[k].web # all_rows[h].web
        /\ row_src[k].skipped
        /\ all_rows[k].email = <<>>

\* C2: no timeout or connection failure of a network call ends the run; only
\* the missing credential does.
C2_NetworkFailureNeverFatal == pc # "crashed"

\* C4: the second run on the same responses emits the same rows and writes
\* the same export.
C4_Deterministic == replay_rows = all_rows /\ replay_xlsx = leads_xlsx

\* the keyword positions of `priority` that an address of S contains
KeywordsIn(S) ==
    {k \in 1..Len(priority) : \E e \in S : Contains(priority[k], lower(e))}

\* C5: the chosen address is corporate when a discovered one is; it contains
\* the earliest keyword any candidate contains; without keyword it is the
\* smallest candidate.
C5_ThreeLevelPriority ==
    (JustSelected /\ discovered # {}) =>
        LET corp == {e \in discovered : is_corporate_email(e)}
            candidates == IF corp # {} THEN corp ELSE discovered
            chosen == LastRow.email
        IN  /\ chosen \in candidates
            /\ KeywordsIn(candidates) # {} =>
                  Contains(priority[SetMin(KeywordsIn(candidates))],
                           lower(chosen))
            /\ KeywordsIn(candidates) = {} =>
                  \A e \in candidates : e = chosen \/ StrLess(chosen, e)

\* C5 witness: personal and corporate addresses were discovered, and the
\* chosen one is a corporate address with keyword that is not the smallest
C5_Witness ==
    /\ JustSelected
    /\ \E e \in discovered : ~is_corporate_email(e)
    /\ \E e \in discovered : e # LastRow.email /\ StrLess(e, LastRow.email)
    /\ \E e \in emails : StrLess(e, LastRow.email)
    /\ is_corporate_email(LastRow.email)

\* the planner's pages of a website, as the specification lists them
PlannedPages(website) ==
    [i \in 1..5 |->
        <<website[1], website[2],
          <<"", "contact", "contacto", "contact-us", "sobre-nosotros">>[i]>>]

\* C10: pages are fetched in planner order, at most five; none is fetched
\* once the running set holds a corporate address; after the crawl the
\* candidate set is the corporate addresses found, or holds none.
C10_ShortCircuit ==
    /\ pc = "crawl" =>
          /\ \E n \in 1..5 :
                pages = SubSeq(PlannedPages(cur.fields.website), n, 5)
          /\ \A e \in emails : ~is_corporate_email(e)
    /\ JustSelected =>
          /\ pages # <<>> => \E e \in discovered : is_corporate_email(e)
          /\ emails \subseteq discovered
          /\ (\E e \in discovered : is_corporate_email(e))
                => emails = {e \in discovered : is_corporate_email(e)}
          /\ \/ \A e \in emails : is_corporate_email(e)
             \/ \A e \in emails : ~is_corporate_email(e)

\* C10 witness: the crawl went past two pages, found personal addresses, and
\* ended on the third page, which had a corporate one
C10_Witness ==
    /\ JustSelected
    /\ Len(pages) = 2
    /\ emails # {}
    /\ \A e \in emails : is_corporate_email(e)
    /\ \E e \in discovered : ~is_corporate_email(e)

-----------------------------------------------------------------------------
(* The dedup and rank stage on free lists of rows                          *)

\* rows handed to the stage
MaxRankRows == 3

\* two companies on one website, with or without phone and city
RankFields ==
    {[name |-> n, phone |-> x.phone, website |-> <<"http", <<"acme", "es">>>>,
      city |-> x.city, categoria |-> <<>>] :
        n \in {<<"A", "c", "m", "e">>, <<"B", "e", "t", "a">>},
        x \in {[phone |-> <<>>, city |-> ""],
               [phone |-> <<"9", "1", "2">>, city |-> "Madrid"]}}

\* a corporate address, a personal one, none
RankEmails ==
    { <<>>,
      <<"i", "n", "f", "o", "@", "a", "c", "m", "e", ".", "e", "s">>,
      <<"i", "n", "f", "o", "@", "g", "m", "x", ".", "e", "s">> }

\* rows as lines 289-306 build them
RankRows ==
    {make_row(f, e, classify_email(e), 1) : f \in RankFields, e \in RankEmails}

InitRank ==
    /\ api_key = TRUE
    /\ pc = "items"
    /\ qi = NumQueries
    /\ items = <<>>
    /\ seen_places = {}
    /\ seen_domains = {}
    /\ cur = NoPlace
    /\ pages = <<>>
    /\ emails = {}
    /\ discovered = {}
    /\ all_rows \in SeqsUpTo(RankRows, MaxRankRows)
    /\ replay_rows = all_rows
    /\ leads_xlsx = NoFile
    /\ replay_xlsx = NoFile
    /\ crawl_starts = <<>>
    /\ row_src = <<>>
    /\ InitPostIdle
    /\ InitRowIdle

NextRank ==
    /\ \/ FinishEmpty
       \/ Export
    /\ UNCHANGED <<postVars, rowVars>>

SpecRank == InitRank /\ [][NextRank]_vars

\* position of a tag in the order corporativo, no_encontrado, personal
TipoRank(t) ==
    CASE t = "corporativo" -> 1
      [] t = "no_encontrado" -> 2
      [] t = "personal" -> 3

SameCompany(r1, r2) == r1.empresa = r2.empresa /\ r1.web = r2.web

\* C7: the export has one row per (empresa, web) pair of the rows, an
\* unedited row of them, the one with the highest score and, among equal
\* scores, the first tag in the order corporativo, no_encontrado, personal.
C7_DedupKeepsBest ==
    leads_xlsx.written =>
        LET out == leads_xlsx.rows
        IN  /\ \A i, j \in 1..Len(out) : SameCompany(out[i], out[j]) => i = j
            /\ \A i \in 1..Len(out) : \E k \in 1..Len(all_rows) :
                  out[i] = all_rows[k]
            /\ \A k \in 1..Len(all_rows) : \E i \in 1..Len(out) :
                  /\ SameCompany(out[i], all_rows[k])
                  /\ out[i].score_inicial >= all_rows[k].score_inicial
                  /\ out[i].score_inicial = all_rows[k].score_inicial
                        => TipoRank(out[i].email_tipo)
                              <= TipoRank(all_rows[k].email_tipo)

\* C7 witness: three rows of one company; the first has the lowest score, the
\* other two the same score, the personal one before the corporate one; the
\* corporate one is kept
C7_Witness ==
    /\ leads_xlsx.written
    /\ Len(all_rows) = 3
    /\ Len(leads_xlsx.rows) = 1
    /\ all_rows[1].score_inicial < all_rows[2].score_inicial
    /\ all_rows[2].score_inicial = all_rows[3].score_inicial
    /\ all_rows[2].email_tipo = "personal"
    /\ all_rows[3].email_tipo = "corporativo"
    /\ leads_xlsx.rows[1] = all_rows[3]

-----------------------------------------------------------------------------
(* Row assembly on free inputs: classify_email and score_lead              *)

RowFields ==
    {[name |-> <<"A", "c", "m", "e">>, phone |-> ph, website |-> w,
      city |-> c, categoria |-> cat] :
        w \in {<<>>, <<"http", <<"acme", "es">>>>},
        ph \in {<<>>, <<"9", "1", "2">>},
        c \in {"", "Madrid"},
        cat \in {<<>>, <<"store", ", ", "food">>}}

\* lines 289-306 for given fields and address
assemble(f, e) == make_row(f, e, classify_email(e), 1)

InitRow ==
    /\ InitPlaceIdle
    /\ InitPostIdle
    /\ \E f \in RowFields, e \in Strings : row = assemble(f, e)
    /\ row_prev = row

\* the row with the same inputs but for one field, absent before and present
\* now
FillField ==
    /\ \E f \in RowFields, e \in Strings :
        /\ \E changed \in {"web", "email", "telefono", "ciudad", "categoria"} :
            /\ changed = "web" <=> (row.web = <<>> /\ f.website # <<>>)
            /\ changed = "email" <=> (row.email = <<>> /\ e # <<>>)
            /\ changed = "telefono" <=> (row.telefono = <<>> /\ f.phone # <<>>)
            /\ changed = "ciudad" <=> (row.ciudad = "" /\ f.city # "")
            /\ changed = "categoria"
                  <=> (row.categoria = <<>> /\ f.categoria # <<>>)
            /\ changed # "web" => f.website = row.web
            /\ changed # "email" => e = row.email
            /\ changed # "telefono" => f.phone = row.telefono
            /\ changed # "ciudad" => f.city = row.ciudad
            /\ changed # "categoria" => f.categoria = row.categoria
        /\ row' = assemble(f, e)
    /\ row_prev' = row
    /\ UNCHANGED <<placeVars, postVars>>

SpecRow == InitRow /\ [][FillField]_vars

\* text after the last "@" of s, s itself without one
ClaimDomain(s) ==
    IF \E i \in 1..Len(s) : s[i] = "@"
    THEN SubSeq(s, SetMax({i \in 1..Len(s) : s[i] = "@"}) + 1, Len(s))
    ELSE s

\* the domain, or its last two dot-separated labels, is in the denylist
ClaimDenied(domain) ==
    \/ domain \in PERSONAL_DOMAINS
    \/ \E i \in 1..Len(domain) :
          /\ domain[i] = "."
          /\ Cardinality({j \in (i + 1)..Len(domain) : domain[j] = "."}) = 1
          /\ SubSeq(domain, i + 1, Len(domain)) \in PERSONAL_DOMAINS

\* C6 as stated: not-found iff empty; a non-empty string is personal iff its
\* domain or the domain's last two labels are in the denylist, corporate in
\* every other case.
C6_ClassifyByDomainOnly ==
    /\ row.email_tipo = "no_encontrado" <=> row.email = <<>>
    /\ row.email # <<>> =>
          /\ row.email_tipo = "personal" <=> ClaimDenied(ClaimDomain(row.email))
          /\ ~ClaimDenied(ClaimDomain(row.email))
                => row.email_tipo = "corporativo"

\* s without the spaces around it, in lower case
Normal(s) ==
    LET inner == {i \in 1..Len(s) : s[i] # " "}
    IN  IF inner = {} THEN <<>>
        ELSE lower(SubSeq(s, SetMin(inner), SetMax(inner)))

\* s is local part, one "@", host, ".", final label of two letters or more
WellFormed(s) ==
    /\ Cardinality({i \in 1..Len(s) : s[i] = "@"}) = 1
    /\ LET at == CHOOSE i \in 1..Len(s) : s[i] = "@"
           dots == {i \in (at + 1)..Len(s) : s[i] = "."}
       IN  /\ at > 1
           /\ \A i \in 1..(at - 1) : s[i] \in LocalChars
           /\ dots # {}
           /\ SetMax(dots) > at + 1
           /\ Len(s) - SetMax(dots) >= 2
           /\ \A i \in (at + 1)..SetMax(dots) : s[i] \in HostChars
           /\ \A i \in (SetMax(dots) + 1)..Len(s) : s[i] \in Letters

\* C6 amended: not-found iff empty; a non-empty string is corporate iff,
\* stripped and lower-cased, it is a well-formed address whose domain and
\* last two labels are not in the denylist; every other non-empty string,
\* a malformed or blank one included, is personal.
C6_ClassifyValidated ==
    /\ row.email_tipo = "no_encontrado" <=> row.email = <<>>
    /\ row.email # <<>> =>
          /\ row.email_tipo \in {"corporativo", "personal"}
          /\ row.email_tipo = "corporativo"
                <=> /\ WellFormed(Normal(row.email))
                    /\ ~ClaimDenied(ClaimDomain(Normal(row.email)))

\* C6 witness: the malformed string "foo", which has no denied domain, is
\* filled into a row without email and is classified personal
C6_Witness ==
    /\ row.email = <<"f", "o", "o">>
    /\ row.email_tipo = "personal"
    /\ row_prev.email = <<>>
    /\ row_prev.email_tipo = "no_encontrado"

Weight(present, w) == IF present THEN w ELSE 0

\* C9: the score, in hundredths, is the sum of the weights of the fields
\* present, a multiple of 10 between 0 and 100, and filling in an absent
\* field does not lower it.
C9_ScoreBoundedMonotonic ==
    /\ row.score_inicial =
            Weight(row.web # <<>>, 30)
          + Weight(row.email_tipo = "corporativo", 30)
          + Weight(row.telefono # <<>>, 20)
          + Weight(row.ciudad # "", 10)
          + Weight(row.categoria # <<>>, 10)
    /\ row.score_inicial \in 0..100
    /\ row.score_inicial % 10 = 0
    /\ row.score_inicial >= row_prev.score_inicial

\* C9 witness: the last absent field of a row is filled in and the score
\* reaches 100
C9_Witness ==
    /\ row # row_prev
    /\ row_prev.score_inicial = 70
    /\ row_prev.email = <<>>
    /\ row.score_inicial = 100

-----------------------------------------------------------------------------
(* leads_detectados.py                                                     *)
(*                                                                         *)
(* A text is the sequence of its words; a pattern \bw\b matches a text that *)
(* holds the word w, a pattern of several words one that holds them in a   *)
(* row.  Patterns are given by the phrases of plain letters they match.    *)

\* len(SEARCH_URLS)
NumSources == 2

\* posting blocks on one listing page
MaxOffers == 2

\* df["score_dolor"] >= 5
MinScore == 5

SEARCH_URLS == <<"tecnoempleo_backend", "tecnoempleo_integracion">>

POSITIVE_SIGNALS ==
    << [phrases |-> {<<"proceso">>, <<"procesos">>}, value |-> 3],
       [phrases |-> {<<"sistema">>, <<"sistemas">>}, value |-> 3],
       [phrases |-> {<<"operacion">>, <<"operaciones">>}, value |-> 3],
       [phrases |-> {<<"flujo">>, <<"flujos">>}, value |-> 3],
       [phrases |-> {<<"automatizar">>}, value |-> 3],
       [phrases |-> {<<"integracion">>, <<"integraciones">>}, value |-> 5],
       [phrases |-> {<<"api">>, <<"apis">>}, value |-> 4],
       [phrases |-> {<<"crm">>}, value |-> 4],
       [phrases |-> {<<"erp">>}, value |-> 4],
       [phrases |-> {<<"base", "de", "datos">>}, value |-> 4],
       [phrases |-> {<<"postgre">>, <<"postgres">>, <<"postgresql">>},
        value |-> 4],
       [phrases |-> {<<"backend">>}, value |-> 3],
       [phrases |-> {<<"dato">>, <<"datos">>}, value |-> 3],
       [phrases |-> {<<"migrar">>}, value |-> 4],
       [phrases |-> {<<"sistema", "actual">>}, value |-> 5] >>

NEGATIVE_SIGNALS ==
    << [phrases |-> {<<"wordpress">>}, value |-> -5],
       [phrases |-> {<<"wix">>}, value |-> -5],
       [phrases |-> {<<"shopify">>}, value |-> -4],
       [phrases |-> {<<"landing">>}, value |-> -4],
       [phrases |-> {<<"chatbot">>}, value |-> -4],
       [phrases |-> {<<"bot">>}, value |-> -3],
       [phrases |-> {<<"instagram">>}, value |-> -3],
       [phrases |-> {<<"redes", "sociales">>}, value |-> -3],
       [phrases |-> {<<"seo">>}, value |-> -3],
       [phrases |-> {<<"marketing">>}, value |-> -3],
       [phrases |-> {}, value |-> -8],
       [phrases |-> {<<"prompt">>}, value |-> -6],
       [phrases |-> {<<"n8n">>, <<"zapier">>, <<"make">>}, value |-> -3] >>

\* str.lower() on the words of the model
lower_word(w) ==
    CASE w = "Backend" -> "backend"
      [] w = "API" -> "api"
      [] w = "CRM" -> "crm"
      [] OTHER -> w

lower_text(t) == [i \in 1..Len(t) |-> lower_word(t[i])]

\* re.search(pattern, t)
matches(signal, t) == \E ph \in signal.phrases : Contains(ph, t)

RECURSIVE sum_matches(_, _)
sum_matches(signals, t) ==
    IF signals = <<>> THEN 0
    ELSE (IF matches(Head(signals), t) THEN Head(signals).value ELSE 0)
         + sum_matches(Tail(signals), t)

compute_score(text) ==
    sum_matches(POSITIVE_SIGNALS, lower_text(text))
    + sum_matches(NEGATIVE_SIGNALS, lower_text(text))

\* a div.oferta block: whether it has an <a>, the words of the <a>, its href
\* (<<>> when the <a> has none) and the words of div.descripcion (<<>> when
\* there is none)
Offers ==
    { [a |-> TRUE, title |-> <<"Backend", "API">>,
       href |-> <<"/", "ofertas/1">>, description |-> <<>>],
      [a |-> TRUE, title |-> <<"landing">>,
       href |-> <<"https://otro.example", "/", "2">>,
       description |-> <<"wordpress", "seo">>],
      [a |-> TRUE, title |-> <<"datos">>,
       href |-> <<"/", "ofertas/3">>, description |-> <<>>],
      [a |-> FALSE, title |-> <<>>, href |-> <<>>, description |-> <<"crm">>],
      [a |-> TRUE, title |-> <<"integracion", "CRM">>, href |-> <<>>,
       description |-> <<"sistema", "actual">>] }

\* the listing pages a source can answer with
Listings == SeqsUpTo(Offers, MaxOffers)

\* lines 118-120
resolve_link(link) ==
    IF Head(link) = "/" THEN <<"https://www.tecnoempleo.com">> \o link
    ELSE link

\* lines 115-136: the row of a block with <a> and href
posting_row(source_name, offer) ==
    [fuente |-> source_name,
     titulo |-> offer.title,
     descripcion |-> offer.description,
     score_dolor |-> compute_score(offer.title \o offer.description),
     url |-> resolve_link(offer.href)]

\* a plausible slip: rows starts over when a block raises
RECURSIVE scrape_rows_all_or_nothing(_, _)
scrape_rows_all_or_nothing(source_name, offers) ==
    IF \E i \in 1..Len(offers) : offers[i].a /\ offers[i].href = <<>>
    THEN <<>>
    ELSE IF offers = <<>> THEN <<>>
    ELSE IF ~Head(offers).a
         THEN scrape_rows_all_or_nothing(source_name, Tail(offers))
         ELSE <<posting_row(source_name, Head(offers))>>
              \o scrape_rows_all_or_nothing(source_name, Tail(offers))

\* lines 108-141: the loop over the blocks; title_el["href"] raises KeyError
\* on an <a> without href, the except clause ends the loop and the rows
\* appended so far are returned
RECURSIVE scrape_rows(_, _)
scrape_rows(source_name, offers) ==
    IF offers = <<>> THEN <<>>
    ELSE IF ~Head(offers).a THEN scrape_rows(source_name, Tail(offers))
    ELSE IF Head(offers).href = <<>> THEN <<>>
    ELSE <<posting_row(source_name, Head(offers))>>
         \o scrape_rows(source_name, Tail(offers))

\* after the source: the next one, or the end of the loop
AdvanceSource ==
    IF src_i < NumSources
    THEN src_i' = src_i + 1 /\ ppc' = "scrape"
    ELSE src_i' = src_i /\ ppc' = "collected"

\* lines 99-101, 138-141: requests.get or raise_for_status raises; rows is []
ScrapeFetchFails ==
    /\ ppc = "scrape"
    /\ det_rows' = det_rows \o <<>>
    /\ src_log' = Append(src_log, [source |-> SEARCH_URLS[src_i],
                                   fetched |-> FALSE, offers |-> <<>>])
    /\ AdvanceSource
    /\ UNCHANGED <<det_xlsx, placeVars, rowVars>>

\* lines 151-154 with scrape_html on a listing page that was fetched
ScrapeListing ==
    /\ ppc = "scrape"
    /\ \E offers \in Listings :
        /\ det_rows' = det_rows \o scrape_rows(SEARCH_URLS[src_i], offers)
        /\ src_log' = Append(src_log, [source |-> SEARCH_URLS[src_i],
                                       fetched |-> TRUE, offers |-> offers])
    /\ AdvanceSource
    /\ UNCHANGED <<det_xlsx, placeVars, rowVars>>

\* lines 156-158
NoOpportunities ==
    /\ ppc = "collected"
    /\ det_rows = <<>>
    /\ ppc' = "done"
    /\ UNCHANGED <<src_i, det_rows, det_xlsx, src_log, placeVars, rowVars>>

\* df[df["score_dolor"] >= 5]
filter_score(rows) == SelectSeq(rows, LAMBDA r : r.score_dolor >= MinScore)

\* sort_values(by="score_dolor", ascending=False); rows with equal scores keep
\* their order on the short frames of the model
sort_by_score(rows) ==
    [k \in 1..Len(rows) |->
        rows[CHOOSE i \in 1..Len(rows) :
                Cardinality({j \in 1..Len(rows) :
                    \/ rows[j].score_dolor > rows[i].score_dolor
                    \/ rows[j].score_dolor = rows[i].score_dolor /\ j < i})
                    = k - 1]]

\* lines 160-168
WriteDetected ==
    /\ ppc = "collected"
    /\ det_rows # <<>>
    /\ det_xlsx' = [written |-> TRUE,
                    rows |-> sort_by_score(filter_score(det_rows))]
    /\ ppc' = "done"
    /\ UNCHANGED <<src_i, det_rows, src_log, placeVars, rowVars>>

InitPost ==
    /\ InitPlaceIdle
    /\ InitRowIdle
    /\ ppc = "scrape"
    /\ src_i = 1
    /\ det_rows = <<>>
    /\ det_xlsx = NoFile
    /\ src_log = <<>>

NextPost ==
    \/ ScrapeFetchFails
    \/ ScrapeListing
    \/ NoOpportunities
    \/ WriteDetected

SpecPost == InitPost /\ [][NextPost]_vars

\* the source failed: its page was not fetched, or a block with <a> has no
\* href
SourceFailed(l) ==
    \/ ~l.fetched
    \/ \E i \in 1..Len(l.offers) : l.offers[i].a /\ l.offers[i].href = <<>>

RowsOf(source_name) == SelectSeq(det_rows, LAMBDA r : r.fuente = source_name)

\* C3 as stated: a source that failed contributes no row, and every source
\* is processed.
C3_FailedSourceContributesNothing ==
    /\ \A k \in 1..Len(src_log) :
          SourceFailed(src_log[k]) => RowsOf(src_log[k].source) = <<>>
    /\ ppc \in {"collected", "done"} => Len(src_log) = NumSources

\* the blocks with <a> before the first block that raises
RECURSIVE ParsedBeforeFailure(_)
ParsedBeforeFailure(offers) ==
    IF offers = <<>> THEN <<>>
    ELSE IF Head(offers).a /\ Head(offers).href = <<>> THEN <<>>
    ELSE IF Head(offers).a
         THEN <<Head(offers)>> \o ParsedBeforeFailure(Tail(offers))
         ELSE ParsedBeforeFailure(Tail(offers))

\* C3 amended: a source that failed contributes the rows of the blocks parsed
\* before the failure, none when the fetch failed or the first block with <a>
\* raised, and every source is processed.
C3_FailedSourceKeepsParsedRows ==
    /\ \A k \in 1..Len(src_log) :
          LET got == RowsOf(src_log[k].source)
              want == ParsedBeforeFailure(src_log[k].offers)
          IN  /\ Len(got) = Len(want)
              /\ \A i \in 1..Len(got) :
                    /\ got[i].titulo = want[i].title
                    /\ got[i].descripcion = want[i].description
              /\ ~src_log[k].fetched => got = <<>>
    /\ ppc \in {"collected", "done"} => Len(src_log) = NumSources
    /\ ppc = "scrape" => Len(src_log) = src_i - 1

\* C3 witness: the first source raised on its second block and kept the row
\* of the first; the second source was processed and contributed a row
C3_Witness ==
    /\ Len(src_log) = NumSources
    /\ Len(src_log[1].offers) = 2
    /\ src_log[1].offers[1].a /\ src_log[1].offers[1].href # <<>>
    /\ src_log[1].offers[2].a /\ src_log[1].offers[2].href = <<>>
    /\ Len(RowsOf(src_log[1].source)) = 1
    /\ Len(RowsOf(src_log[2].source)) >= 1
    /\ ~SourceFailed(src_log[2])

\* C8: the file is written only with at least one row, each of score 5 or
\* more; without such a row the run ends without file.
C8_NoEmptyExport ==
    /\ det_xlsx.written =>
          /\ Len(det_xlsx.rows) >= 1
          /\ \A i \in 1..Len(det_xlsx.rows) : det_xlsx.rows[i].score_dolor >= 5
    /\ (ppc = "done" /\ \A i \in 1..Len(det_rows) : det_rows[i].score_dolor < 5)
          => ~det_xlsx.written

====
